---------------------------- MODULE Spec2Model ----------------------------
(***************************************************************************)
(* Model of src/main.py: the conversion of a Tenable .audit document into  *)
(* one row per <custom_item> block.                                        *)
(*                                                                         *)
(* A Python str is a sequence of one-character strings.  The string        *)
(* methods and the two regular expressions of main.py are operators on     *)
(* such sequences, computed character by character as CPython computes     *)
(* them.  The module-level script (find the blocks, exit when there are    *)
(* none, parse each block, write the rows) is the state machine; one       *)
(* iteration of the tokenizer's outer while loop is one step.              *)
(***************************************************************************)
EXTENDS Integers, Sequences, FiniteSets, TLC

(***************************************************************************)
(* str methods                                                             *)
(***************************************************************************)
\* str.isspace of one character (the whitespace str.strip() removes and \s matches)
Whitespace == {" ", "\t", "\n"}

IsSpace(c) == c \in Whitespace

\* what str.splitlines() breaks a line at
IsLineBreak(c) == c = "\n"

\* str.isdigit of one character, and \d
Digits == {"0", "1", "2", "3", "4", "5", "6", "7", "8", "9"}

IsDigit(c) == c \in Digits

Quote == "\""

RECURSIVE lstrip(_)
lstrip(s) == IF s # <<>> /\ IsSpace(Head(s)) THEN lstrip(Tail(s)) ELSE s

RECURSIVE rstrip(_)
rstrip(s) ==
    IF s # <<>> /\ IsSpace(s[Len(s)]) THEN rstrip(SubSeq(s, 1, Len(s) - 1)) ELSE s

\* s.strip()
strip(s) == rstrip(lstrip(s))

RECURSIVE lstrip_quotes(_)
lstrip_quotes(s) ==
    IF s # <<>> /\ Head(s) = Quote THEN lstrip_quotes(Tail(s)) ELSE s

RECURSIVE rstrip_quotes(_)
rstrip_quotes(s) ==
    IF s # <<>> /\ s[Len(s)] = Quote
    THEN rstrip_quotes(SubSeq(s, 1, Len(s) - 1))
    ELSE s

\* s.strip('"'): every leading and every trailing double quote is removed
strip_quotes(s) == rstrip_quotes(lstrip_quotes(s))

\* s.startswith(p)
startswith(s, p) == Len(p) <= Len(s) /\ SubSeq(s, 1, Len(p)) = p

\* s.endswith(p)
endswith(s, p) == Len(p) <= Len(s) /\ SubSeq(s, Len(s) - Len(p) + 1, Len(s)) = p

\* s.find(p, start), 1-based; 0 when p does not occur at or after start
RECURSIVE find(_, _, _)
find(s, p, start) ==
    IF start + Len(p) - 1 > Len(s) THEN 0
    ELSE IF SubSeq(s, start, start + Len(p) - 1) = p THEN start
    ELSE find(s, p, start + 1)

\* c in s
contains(s, c) == \E i \in 1..Len(s) : s[i] = c

\* s.split(sep) for a one-character sep: always at least one part
RECURSIVE split(_, _)
split(s, sep) ==
    LET n == find(s, <<sep>>, 1) IN
    IF n = 0 THEN <<s>>
    ELSE <<SubSeq(s, 1, n - 1)>> \o split(SubSeq(s, n + 1, Len(s)), sep)

\* s.split(sep, 1): the text before the first sep and all the text after it
split1(s, sep) ==
    LET n == find(s, <<sep>>, 1) IN
    IF n = 0 THEN <<s>>
    ELSE <<SubSeq(s, 1, n - 1), SubSeq(s, n + 1, Len(s))>>

\* s.splitlines(): no empty last line after a final line break
RECURSIVE splitlines(_)
splitlines(s) ==
    IF s = <<>> THEN <<>>
    ELSE LET n == CHOOSE k \in 1..(Len(s) + 1) :
                     /\ k <= Len(s) => IsLineBreak(s[k])
                     /\ \A j \in 1..(k - 1) : ~IsLineBreak(s[j])
         IN IF n > Len(s) THEN <<s>>
            ELSE <<SubSeq(s, 1, n - 1)>> \o splitlines(SubSeq(s, n + 1, Len(s)))

\* sep.join(parts)
RECURSIVE join(_, _)
join(parts, sep) ==
    IF parts = <<>> THEN <<>>
    ELSE IF Len(parts) = 1 THEN parts[1]
    ELSE parts[1] \o sep \o join(Tail(parts), sep)

\* s.isdigit(): non-empty and digits only
isdigit(s) == s # <<>> /\ \A i \in 1..Len(s) : IsDigit(s[i])

DigitValue(c) ==
    CASE c = "0" -> 0 [] c = "1" -> 1 [] c = "2" -> 2 [] c = "3" -> 3
      [] c = "4" -> 4 [] c = "5" -> 5 [] c = "6" -> 6 [] c = "7" -> 7
      [] c = "8" -> 8 [] c = "9" -> 9

\* int(s) of a string of digits
RECURSIVE int(_)
int(s) ==
    IF s = <<>> THEN 0
    ELSE 10 * int(SubSeq(s, 1, Len(s) - 1)) + DigitValue(s[Len(s)])

\* s.zfill(width) of a string of digits: zeros on the left, never cut
RECURSIVE zfill(_, _)
zfill(s, width) == IF Len(s) >= width THEN s ELSE zfill(<<"0">> \o s, width)

(***************************************************************************)
(* Block extraction: pattern.findall(raw_text)                             *)
(***************************************************************************)
OpenTag == <<"<", "c", "u", "s", "t", "o", "m", "_", "i", "t", "e", "m", ">">>

CloseTag == <<"<", "/", "c", "u", "s", "t", "o", "m", "_", "i", "t", "e", "m", ">">>

\* The matches of <custom_item>(.*?)</custom_item> with DOTALL, scanning from
\* pos: leftmost open tag, then the nearest close tag after it (non-greedy),
\* then on from the end of that close tag.  Each match is the inner text.
\* findall_from with a greedy (.*): the block runs to the last close tag
findall_greedy(text, pos) ==
    LET o == find(text, OpenTag, pos) IN
    IF o = 0 THEN <<>>
    ELSE LET cs == {q \in (o + Len(OpenTag))..(Len(text) - Len(CloseTag) + 1) :
                       SubSeq(text, q, q + Len(CloseTag) - 1) = CloseTag}
         IN IF cs = {} THEN <<>>
            ELSE <<SubSeq(text, o + Len(OpenTag),
                          (CHOOSE q \in cs : \A r \in cs : r <= q) - 1)>>

\* findall_from taking an open tag without a close tag as a block that runs
\* to the end of the text
RECURSIVE findall_unclosed(_, _)
findall_unclosed(text, pos) ==
    LET o == find(text, OpenTag, pos) IN
    IF o = 0 THEN <<>>
    ELSE LET c == find(text, CloseTag, o + Len(OpenTag)) IN
         IF c = 0 THEN <<SubSeq(text, o + Len(OpenTag), Len(text))>>
         ELSE <<SubSeq(text, o + Len(OpenTag), c - 1)>>
                  \o findall_unclosed(text, c + Len(CloseTag))

RECURSIVE findall_from(_, _)
findall_from(text, pos) ==
    LET o == find(text, OpenTag, pos) IN
    IF o = 0 THEN <<>>
    ELSE LET c == find(text, CloseTag, o + Len(OpenTag)) IN
         IF c = 0 THEN <<>>
         ELSE <<SubSeq(text, o + Len(OpenTag), c - 1)>>
                  \o findall_from(text, c + Len(CloseTag))

findall(text) == findall_from(text, 1)

(***************************************************************************)
(* parse_description_field                                                 *)
(***************************************************************************)
\* length of the longest prefix of s whose characters are all in chars
RECURSIVE span(_, _)
span(s, chars) ==
    IF s # <<>> /\ Head(s) \in chars THEN 1 + span(Tail(s), chars) ELSE 0

drop(s, n) == SubSeq(s, n + 1, Len(s))

PathChars == Digits \cup {"."}

\* re.match(r"^\s*([\d\.]+)\s*\(L(\d+)\)\s*(.+)$", s): <<>> for None, else the
\* three groups.  Every quantifier is greedy and no shorter choice can lead to
\* a match, so the groups are the maximal runs; "." matches all but "\n".
re_match_description(s) ==
    LET s0 == drop(s, span(s, Whitespace))
        n1 == span(s0, PathChars)
        s1 == drop(s0, n1)
        s2 == drop(s1, span(s1, Whitespace))
        s3 == drop(s2, 2)
        n2 == span(s3, Digits)
        s4 == drop(s3, n2)
        s5 == drop(s4, 1)
        g3 == drop(s5, span(s5, Whitespace))
    IN IF /\ n1 >= 1
          /\ startswith(s2, <<"(", "L">>)
          /\ n2 >= 1
          /\ startswith(s4, <<")">>)
          /\ g3 # <<>>
          /\ ~contains(g3, "\n")
       THEN <<SubSeq(s0, 1, n1), SubSeq(s3, 1, n2), g3>>
       ELSE <<>>

PadWidth == 2

PadBelow == 10

\* pad_segment with the zero-padding left out
pad_segment_none(seg) == seg

\* first_seg / section_raw: zfill(2) when all digits and below 10
pad_segment(seg) ==
    IF isdigit(seg) /\ int(seg) < PadBelow THEN zfill(seg, PadWidth) ELSE seg

\* returns <<section, level, name>>
parse_description_field(desc_field) ==
    LET m == re_match_description(strip(desc_field)) IN
    IF m = <<>> THEN <<<<>>, <<>>, strip_quotes(strip(desc_field))>>
    ELSE LET section_raw == strip(m[1])
             level == strip(m[2])
             name == strip_quotes(strip(m[3]))
             sp == split1(section_raw, ".")
             section == IF contains(section_raw, ".")
                        THEN pad_segment(sp[1]) \o <<".">> \o sp[2]
                        ELSE pad_segment(section_raw)
         IN <<section, level, name>>

(***************************************************************************)
(* split_reference_for_nist                                                *)
(***************************************************************************)
NistPrefix == <<"8", "0", "0", "-", "5", "3">>

\* reference_parts that drops the empty tokens but keeps the others untrimmed
reference_parts_untrimmed(ref_field) ==
    SelectSeq(split(ref_field, ","), LAMBDA p : strip(p) # <<>>)

\* parts = [p.strip() for p in ref_field.split(",") if p.strip()]
reference_parts(ref_field) ==
    LET raw == split(ref_field, ",")
        stripped == [i \in 1..Len(raw) |-> strip(raw[i])]
    IN SelectSeq(stripped, LAMBDA p : p # <<>>)

\* nist_only with the prefix cut short to "800-"
nist_only_short_prefix(ref_field) ==
    SelectSeq(reference_parts(ref_field), LAMBDA p : startswith(p, <<"8", "0", "0", "-">>))

\* nist_only = [p for p in parts if p.startswith("800-53")]
nist_only(ref_field) ==
    SelectSeq(reference_parts(ref_field), LAMBDA p : startswith(p, NistPrefix))

\* return ", ".join(nist_only)
split_reference_for_nist(ref_field) == join(nist_only(ref_field), <<",", " ">>)

\* the second variant of the script: the kept tokens one per line
split_reference_one_per_line(ref_field) == join(nist_only(ref_field), <<"\n">>)

(***************************************************************************)
(* The script: module-level state and the tokenizer's locals               *)
(***************************************************************************)
VARIABLES
    pc,         \* where the script is: "find", "for", "while", "write",
                \* "done", or "failed" after sys.exit(1)
    raw_text,   \* the text of the .audit file
    matches,    \* pattern.findall(raw_text)
    block_no,   \* the for loop's position in matches (the enumerate index)
    lines,      \* parse_custom_item_block: block_text.splitlines()
    idx,        \* parse_custom_item_block: lines consumed so far
    total,      \* parse_custom_item_block: len(lines)
    data,       \* parse_custom_item_block: the key -> value dict
    rows,       \* the parsed entries
    df,         \* the rows handed to to_csv / to_excel
    layout      \* which variant of the script runs: "joined" or "lines"

vars == <<pc, raw_text, matches, block_no, lines, idx, total, data, rows, df, layout>>

KeyDescription == <<"d", "e", "s", "c", "r", "i", "p", "t", "i", "o", "n">>

KeyInfo == <<"i", "n", "f", "o">>

KeySolution == <<"s", "o", "l", "u", "t", "i", "o", "n">>

KeyReference == <<"r", "e", "f", "e", "r", "e", "n", "c", "e">>

EmptyDict == [k \in {} |-> <<>>]

\* d.get(k, "")
get(d, k) == IF k \in DOMAIN d THEN d[k] ELSE <<>>

\* put that keeps the value a key already has
put_first(d, k, v) == [x \in (DOMAIN d) \cup {k} |-> IF x \in DOMAIN d THEN d[x] ELSE v]

\* d[k] = v
put(d, k, v) == [x \in (DOMAIN d) \cup {k} |-> IF x = k THEN v ELSE d[x]]

\* val.startswith('"') and not val.rstrip().endswith('"')
opens_multiline(val) == startswith(val, <<Quote>>) /\ ~endswith(rstrip(val), <<Quote>>)

\* next_line.rstrip().endswith('"')
closes_multiline(next_line) == endswith(rstrip(next_line), <<Quote>>)

\* accumulate that gives up on a value whose closing quote never comes: the
\* lines are consumed and the text is thrown away
RECURSIVE accumulate_discard(_, _, _, _)
accumulate_discard(ls, i, tot, val_accum) ==
    IF i < tot
    THEN LET next_line == ls[i + 1]
             acc == val_accum \o <<"\n">> \o next_line
         IN IF closes_multiline(next_line)
            THEN <<i + 1, acc>>
            ELSE accumulate_discard(ls, i + 1, tot, acc)
    ELSE <<i, <<>>>>

\* The inner while loop: from i lines consumed and val_accum accumulated, the
\* <<idx, val_accum>> it ends with.
RECURSIVE accumulate(_, _, _, _)
accumulate(ls, i, tot, val_accum) ==
    IF i < tot
    THEN LET next_line == ls[i + 1]
             acc == val_accum \o <<"\n">> \o next_line
         IN IF closes_multiline(next_line)
            THEN <<i + 1, acc>>
            ELSE accumulate(ls, i + 1, tot, acc)
    ELSE <<i, val_accum>>

\* if val_accum.endswith('"'): val_accum = val_accum[:-1]
drop_closing_quote(val_accum) ==
    IF endswith(val_accum, <<Quote>>)
    THEN SubSeq(val_accum, 1, Len(val_accum) - 1)
    ELSE val_accum

\* data[key] = val_accum.strip()
multiline_value(val_accum) == strip(drop_closing_quote(val_accum))

\* data[key] = val.strip().strip('"')
single_line_value(val) == strip_quotes(strip(val))

\* the NIST column in the variant that runs
nist_field(reference_field, lay) ==
    IF lay = "joined"
    THEN split_reference_for_nist(reference_field)
    ELSE split_reference_one_per_line(reference_field)

\* the dict parse_custom_item_block returns
entry_of(d, lay) ==
    LET slt == parse_description_field(get(d, KeyDescription)) IN
    [ Section     |-> slt[1],
      Level       |-> slt[2],
      Name        |-> slt[3],
      Description |-> get(d, KeyInfo),
      Remediation |-> get(d, KeySolution),
      NIST        |-> nist_field(get(d, KeyReference), lay) ]

(***************************************************************************)
(* Steps                                                                   *)
(***************************************************************************)
\* matches = pattern.findall(raw_text); if not matches: sys.exit(1)
NoBlocksFound ==
    /\ pc = "find"
    /\ findall(raw_text) = <<>>
    /\ matches' = <<>>
    /\ pc' = "failed"
    /\ UNCHANGED <<raw_text, block_no, lines, idx, total, data, rows, df, layout>>

FoundBlocks ==
    /\ pc = "find"
    /\ findall(raw_text) # <<>>
    /\ matches' = findall(raw_text)
    /\ pc' = "for"
    /\ UNCHANGED <<raw_text, block_no, lines, idx, total, data, rows, df, layout>>

\* for idx, block_inner in enumerate(matches, start=1): the call of
\* parse_custom_item_block up to its while loop
ParseBlock ==
    /\ pc = "for"
    /\ block_no < Len(matches)
    /\ block_no' = block_no + 1
    /\ lines' = splitlines(matches[block_no + 1])
    /\ idx' = 0
    /\ total' = Len(splitlines(matches[block_no + 1]))
    /\ data' = EmptyDict
    /\ pc' = "while"
    /\ UNCHANGED <<raw_text, matches, rows, df, layout>>

\* one iteration of `while idx < total` on a line without ":"
SkipLine ==
    /\ pc = "while"
    /\ idx < total
    /\ ~contains(lines[idx + 1], ":")
    /\ idx' = idx + 1
    /\ UNCHANGED <<pc, raw_text, matches, block_no, lines, total, data, rows, df, layout>>

\* one iteration on a field whose value is on the line
SingleLineField ==
    /\ pc = "while"
    /\ idx < total
    /\ contains(lines[idx + 1], ":")
    /\ LET kv == split1(lines[idx + 1], ":")
           key == strip(kv[1])
           val == lstrip(kv[2])
       IN /\ ~opens_multiline(val)
          /\ data' = put(data, key, single_line_value(val))
    /\ idx' = idx + 1
    /\ UNCHANGED <<pc, raw_text, matches, block_no, lines, total, rows, df, layout>>

\* one iteration on a field whose value opens a quote it does not close
MultiLineField ==
    /\ pc = "while"
    /\ idx < total
    /\ contains(lines[idx + 1], ":")
    /\ LET kv == split1(lines[idx + 1], ":")
           key == strip(kv[1])
           val == lstrip(kv[2])
           res == accumulate(lines, idx + 1, total, Tail(val))
       IN /\ opens_multiline(val)
          /\ idx' = res[1]
          /\ data' = put(data, key, multiline_value(res[2]))
    /\ UNCHANGED <<pc, raw_text, matches, block_no, lines, total, rows, df, layout>>

\* the loop has ended: build the entry, return, rows.append(entry)
AppendEntry ==
    /\ pc = "while"
    /\ idx >= total
    /\ rows' = Append(rows, entry_of(data, layout))
    /\ pc' = "for"
    /\ UNCHANGED <<raw_text, matches, block_no, lines, idx, total, data, df, layout>>

\* the for loop is exhausted
AllParsed ==
    /\ pc = "for"
    /\ block_no >= Len(matches)
    /\ pc' = "write"
    /\ UNCHANGED <<raw_text, matches, block_no, lines, idx, total, data, rows, df, layout>>

\* df = pd.DataFrame(rows, ...); df.to_csv(...); df.to_excel(...)
WriteOutput ==
    /\ pc = "write"
    /\ df' = rows
    /\ pc' = "done"
    /\ UNCHANGED <<raw_text, matches, block_no, lines, idx, total, data, rows, layout>>

Next ==
    \/ NoBlocksFound
    \/ FoundBlocks
    \/ ParseBlock
    \/ SkipLine
    \/ SingleLineField
    \/ MultiLineField
    \/ AppendEntry
    \/ AllParsed
    \/ WriteOutput

(***************************************************************************)
(* Input documents                                                         *)
(***************************************************************************)
\* all concatenations of at most n of the given parts
RECURSIVE Concats(_, _)
Concats(parts, n) ==
    IF n = 0 THEN {<<>>}
    ELSE LET shorter == Concats(parts, n - 1)
         IN shorter \cup {s \o p : s \in shorter, p \in parts}

\* a document cut off inside its first block
TruncatedDocument == OpenTag \o <<"\n">>

InitWith(documents, layouts) ==
    /\ raw_text \in documents
    /\ layout \in layouts
    /\ pc = "find"
    /\ matches = <<>>
    /\ block_no = 0
    /\ lines = <<>>
    /\ idx = 0
    /\ total = 0
    /\ data = EmptyDict
    /\ rows = <<>>
    /\ df = <<>>

\* Documents of open tags (each followed by an info field: a on one line, or
\* b and c on two quoted lines), close tags and a solution line.
MaxDocParts == 5

OpenA == OpenTag \o <<"\n", "i", "n", "f", "o", " ", ":", " ", "a", "\n">>

OpenB == OpenTag \o <<"\n", "i", "n", "f", "o", " ", ":", " ", "\"", "b", "\n", "c", "\"", "\n">>

Outside == <<"s", "o", "l", "u", "t", "i", "o", "n", " ", ":", " ", "s", "\n">>

RunDocuments == Concats({OpenA, OpenB, CloseTag, Outside}, MaxDocParts)

Init == InitWith(RunDocuments, {"joined"})

Spec == Init /\ [][Next]_vars


\* Documents of one block of at most MaxLines lines: fields on one line
\* (quoted, wrapped twice, quoted at the end only, a lone quote), a field that
\* opens a quoted value, lines that close one (with and without a space after
\* the quote), a second key and a line without ":".
MaxLines == 3

TokLines ==
    { <<"i", "n", "f", "o", " ", ":", " ", "\"", "o", "n", "e">>,
      <<"t", "w", "o", "\"">>,
      <<"t", "w", "o", "\"", " ">>,
      <<"i", "n", "f", "o", " ", ":", " ", "\"", "x", "\"">>,
      <<"i", "n", "f", "o", " ", ":", " ", "\"", "\"", "y", "\"", "\"">>,
      <<"i", "n", "f", "o", " ", ":", " ", "z", "\"">>,
      <<"k", ":", "v">>,
      <<"m", "i", "d">>,
      <<"k", " ", ":", " ", "\"">>,
      <<" ", "i", "n", "f", "o", ":", " ", " ", "\"", " ", "w", " ">> }

BlockDocument(body) == OpenTag \o <<"\n">> \o body \o CloseTag

TokDocuments ==
    {BlockDocument(b) : b \in Concats({l \o <<"\n">> : l \in TokLines}, MaxLines)}
        \cup {TruncatedDocument}

InitTok == InitWith(TokDocuments, {"joined"})

SpecTok == InitTok /\ [][Next]_vars

\* Documents of one block with one description field, its value made of at
\* most MaxDescParts pieces of section paths, levels, names and quotes.
MaxDescParts == 4

DescParts ==
    { <<"1">>, <<"1", "0">>, <<"0", "7">>, <<".">>,
      <<".", "2", ".", "1", "0">>,
      <<" ", "(", "L", "1", ")", " ", "X">>,
      <<"(", "L", "2", ")">>,
      <<"\"">> }

DescriptionLine == <<"d", "e", "s", "c", "r", "i", "p", "t", "i", "o", "n", " ", ":", " ">>

DescDocuments ==
    {BlockDocument(DescriptionLine \o d \o <<"\n">>) : d \in Concats(DescParts, MaxDescParts)}
        \cup {TruncatedDocument}

InitDesc == InitWith(DescDocuments, {"joined"})

SpecDesc == InitDesc /\ [][Next]_vars

\* Documents of one block with one quoted reference field, its closing quote
\* on the same line or on the next, the value made of at most MaxRefParts
\* pieces of tokens, commas and spaces; run by either variant of the script.
MaxRefParts == 4

RefParts ==
    { <<"8", "0", "0", "-", "5", "3", "|", "A">>,
      <<"8", "0", "0", "-", "5", "3", "r", "5", "|", "B">>,
      <<"8", "0", "0", "-", "1", "7", "1", "|", "C", ",">>,
      <<",">>, <<" ">> }

ReferenceLine == <<"r", "e", "f", "e", "r", "e", "n", "c", "e", " ", ":", " ", "\"">>

RefDocuments ==
    {BlockDocument(ReferenceLine \o r \o closing) :
        r \in Concats(RefParts, MaxRefParts),
        closing \in {<<Quote, "\n">>, <<"\n", Quote, "\n">>}}
        \cup {TruncatedDocument}

Layouts == {"joined", "lines"}

InitRef == InitWith(RefDocuments, Layouts)

SpecRef == InitRef /\ [][Next]_vars


(***************************************************************************)
(* Vocabulary of the properties, defined on the text alone                 *)
(***************************************************************************)
Min(S) == CHOOSE x \in S : \A y \in S : x <= y

Max(S) == CHOOSE x \in S : \A y \in S : x >= y

RECURSIVE Ascending(_)
Ascending(S) == IF S = {} THEN <<>> ELSE <<Min(S)>> \o Ascending(S \ {Min(S)})

\* the pieces of s between the occurrences of the character c
Pieces(s, c) ==
    LET cuts == <<0>> \o Ascending({i \in 1..Len(s) : s[i] = c}) \o <<Len(s) + 1>>
    IN [k \in 1..(Len(cuts) - 1) |-> SubSeq(s, cuts[k] + 1, cuts[k + 1] - 1)]

\* the lines of a text; a final line break starts no further line
TextLines(s) ==
    LET p == Pieces(s, "\n")
    IN IF p[Len(p)] = <<>> THEN SubSeq(p, 1, Len(p) - 1) ELSE p

\* s without its leading and trailing whitespace
Trim(s) ==
    LET solid == {i \in 1..Len(s) : s[i] \notin Whitespace}
    IN IF solid = {} THEN <<>> ELSE SubSeq(s, Min(solid), Max(solid))

\* s without its trailing whitespace
TrimRight(s) ==
    LET solid == {i \in 1..Len(s) : s[i] \notin Whitespace}
    IN IF solid = {} THEN <<>> ELSE SubSeq(s, 1, Max(solid))

\* s without its leading whitespace
TrimLeft(s) ==
    LET solid == {i \in 1..Len(s) : s[i] \notin Whitespace}
    IN IF solid = {} THEN <<>> ELSE SubSeq(s, Min(solid), Len(s))

\* tag stands in text at position p
TagAt(text, tag, p) ==
    /\ p + Len(tag) - 1 <= Len(text)
    /\ \A k \in 1..Len(tag) : text[p + k - 1] = tag[k]

\* where a close tag stands after the open tag at p
ClosesAfter(text, p) ==
    {q \in (p + Len(OpenTag))..Len(text) : TagAt(text, CloseTag, q)}

\* The <custom_item>...</custom_item> blocks of a document in document order:
\* each starts at the first open tag that some close tag follows and ends at
\* the nearest close tag; the next is looked for after that close tag.
RECURSIVE BlocksFrom(_, _)
BlocksFrom(text, from) ==
    LET opens == {p \in from..Len(text) :
                     TagAt(text, OpenTag, p) /\ ClosesAfter(text, p) # {}}
    IN IF opens = {} THEN <<>>
       ELSE LET o == Min(opens)
                c == Min(ClosesAfter(text, o))
            IN <<SubSeq(text, o + Len(OpenTag), c - 1)>>
                   \o BlocksFrom(text, c + Len(CloseTag))

DocumentBlocks(text) == BlocksFrom(text, 1)

(***************************************************************************)
(* C1: a document with N >= 1 blocks yields exactly N records, the i-th    *)
(* parsed from the i-th block in document order, whatever the block holds. *)
(* While record i is being parsed the tokenizer reads the lines of block   *)
(* i; once parsed, record i stands at position i with the fields           *)
(* tokenized from block i and is never changed or dropped afterwards; the  *)
(* run ends with N rows, all written.                                      *)
(***************************************************************************)
C1_RecordAtBlockPosition ==
    LET blocks == DocumentBlocks(raw_text) IN
    /\ pc = "while" =>
          /\ block_no = Len(rows) + 1
          /\ block_no <= Len(blocks)
          /\ lines = TextLines(blocks[block_no])
    /\ (pc = "for" /\ block_no >= 1) =>
          /\ Len(rows) = block_no
          /\ block_no <= Len(blocks)
          /\ lines = TextLines(blocks[block_no])
          /\ rows[block_no].Description = get(data, KeyInfo)
          /\ rows[block_no].Remediation = get(data, KeySolution)
    /\ pc \in {"write", "done"} => Len(rows) = Len(blocks) /\ Len(blocks) >= 1
    /\ pc = "done" => df = rows

C1_RecordsKept ==
    /\ Len(rows') >= Len(rows)
    /\ \A i \in 1..Len(rows) : rows'[i] = rows[i]

IsFieldLine(l) == \E i \in 1..Len(l) : l[i] = ":"

FirstColon(l) == Min({i \in 1..Len(l) : l[i] = ":"})

\* the trimmed text before the first ":"
KeyOf(l) == Trim(SubSeq(l, 1, FirstColon(l) - 1))

\* the text after the first ":" without its leading whitespace
ValueOf(l) == TrimLeft(SubSeq(l, FirstColon(l) + 1, Len(l)))

\* the trimmed end of the text is a double quote
EndsQuoted(l) == LET t == TrimRight(l) IN t # <<>> /\ t[Len(t)] = Quote

\* a field line whose value begins with a double quote and does not end with
\* one after trimming trailing whitespace
OpensQuote(l) ==
    /\ IsFieldLine(l)
    /\ ValueOf(l) # <<>>
    /\ ValueOf(l)[1] = Quote
    /\ ~EndsQuoted(ValueOf(l))

\* the lines after line h whose trimmed end is a double quote
Closers(ls, h) == {j \in (h + 1)..Len(ls) : EndsQuoted(ls[j])}

\* the texts joined with sep between them
RECURSIVE Glue(_, _)
Glue(texts, sep) ==
    IF texts = <<>> THEN <<>>
    ELSE IF Len(texts) = 1 THEN texts[1]
    ELSE Glue(SubSeq(texts, 1, Len(texts) - 1), sep) \o sep \o texts[Len(texts)]

\* the text after the opening quote of the value of line h
AfterOpeningQuote(l) == SubSeq(ValueOf(l), 2, Len(ValueOf(l)))

\* line l without the double quote at its trimmed end
WithoutClosingQuote(l) ==
    LET q == Len(TrimRight(l)) IN SubSeq(l, 1, q - 1) \o SubSeq(l, q + 1, Len(l))

\* The value of the field opened on line h and closed on the first closing
\* line j: the text after the opening quote, the lines between, and line j
\* without its closing quote, joined by newlines, trimmed.
ClosedValue(ls, h) ==
    LET j == Min(Closers(ls, h))
    IN Trim(Glue(<<AfterOpeningQuote(ls[h])>>
                     \o SubSeq(ls, h + 1, j - 1)
                     \o <<WithoutClosingQuote(ls[j])>>, <<"\n">>))

\* the text after the opening quote on line h and all the lines after it,
\* joined by newlines, trimmed
UnclosedValue(ls, h) ==
    Trim(Glue(<<AfterOpeningQuote(ls[h])>> \o SubSeq(ls, h + 1, Len(ls)), <<"\n">>))

\* v without one leading and one trailing double quote, when it has both
UnwrapOnePair(v) ==
    IF Len(v) >= 2 /\ v[1] = Quote /\ v[Len(v)] = Quote
    THEN SubSeq(v, 2, Len(v) - 1)
    ELSE v

\* the tokenizer is about to read line idx + 1 as a field line
AtFieldLine == pc = "while" /\ idx < total /\ IsFieldLine(lines[idx + 1])

(***************************************************************************)
(* C3: a field whose value opens a quote that a later line closes is       *)
(* stored as the text after the opening quote joined by newlines with the  *)
(* following lines up to the first closing line, the closing quote         *)
(* removed, the whole trimmed; the closing quote is never kept, also when  *)
(* whitespace follows it on the closing line.                              *)
(***************************************************************************)
C3_Step ==
    (AtFieldLine /\ OpensQuote(lines[idx + 1]) /\ Closers(lines, idx + 1) # {}) =>
        /\ idx' = Min(Closers(lines, idx + 1))
        /\ KeyOf(lines[idx + 1]) \in DOMAIN data'
        /\ data'[KeyOf(lines[idx + 1])] = ClosedValue(lines, idx + 1)

\* C3: every step on a field that opens a quote closed by a later line stores
\* the joined, trimmed text without the closing quote.
C3_ClosedMultilineValue == [][C3_Step]_vars

(***************************************************************************)
(* C4: a field whose value is entirely on its line is stored trimmed, with *)
(* exactly one leading and one trailing double quote removed, and only     *)
(* when both are present.  (A value that is a lone double quote, where the *)
(* leading and the trailing quote are the same character, is left out.)    *)
(***************************************************************************)
C4_Step ==
    (/\ AtFieldLine
     /\ ~OpensQuote(lines[idx + 1])
     /\ Trim(ValueOf(lines[idx + 1])) # <<Quote>>) =>
        /\ idx' = idx + 1
        /\ KeyOf(lines[idx + 1]) \in DOMAIN data'
        /\ data'[KeyOf(lines[idx + 1])] = UnwrapOnePair(Trim(ValueOf(lines[idx + 1])))

\* C4: every step on a one-line field stores the trimmed value less one
\* wrapping pair of double quotes, if it has the pair.
C4_OnePairRemoved == [][C4_Step]_vars

(***************************************************************************)
(* C5: when a value opens a quote that no later line of the block closes,  *)
(* the tokenizer raises nothing and ends: the line index never passes the  *)
(* number of lines, the text after the opening quote and all the remaining *)
(* lines (joined by newlines, trimmed like every stored value) is stored   *)
(* under the field's key in the one step that ends the loop, the step      *)
(* after the loop appends the block's record, and the run does not fail:   *)
(* it ends with one row per block, all written.                            *)
(***************************************************************************)
AtUnclosedField ==
    AtFieldLine /\ OpensQuote(lines[idx + 1]) /\ Closers(lines, idx + 1) = {}

C5_IndexInRange == idx <= total /\ (pc = "while" => total = Len(lines))

C5_Step ==
    AtUnclosedField =>
        /\ pc' = "while"
        /\ idx' = total
        /\ KeyOf(lines[idx + 1]) \in DOMAIN data'
        /\ data'[KeyOf(lines[idx + 1])] = UnclosedValue(lines, idx + 1)

\* the tokenizer's loop has ended: the next step appends the block's record
C5_RecordProduced ==
    (pc = "while" /\ idx = total) =>
        /\ pc' = "for"
        /\ Len(rows') = block_no
        /\ rows'[block_no].Description = get(data, KeyInfo)

C5_RunGoesOn ==
    /\ pc = "failed" => matches = <<>>
    /\ pc \in {"write", "done"} => Len(rows) = Len(matches)
    /\ pc = "done" => df = rows

\* C5: an unclosed multiline value is stored with all the remaining lines, the
\* line index stays within the lines, and the block's record is produced.
C5_UnterminatedQuoteAccepted ==
    /\ [] (C5_IndexInRange /\ C5_RunGoesOn)
    /\ [][C5_Step /\ C5_RecordProduced]_vars

\* a finished run whose block opened an info value on a line with lines after
\* it, never closed it, and whose record holds those lines
C5_Witness ==
    /\ pc = "done"
    /\ Len(df) = 1
    /\ \E h \in 1..(Len(lines) - 1) :
          /\ OpensQuote(lines[h])
          /\ KeyOf(lines[h]) = KeyInfo
          /\ Closers(lines, h) = {}
          /\ \A g \in 1..(h - 1) : ~OpensQuote(lines[g])
          /\ df[1].Description = UnclosedValue(lines, h)
          /\ contains(df[1].Description, "\n")

(***************************************************************************)
(* C10: after a block is tokenized, a key defined on more than one line    *)
(* holds the value of the last of those lines.                             *)
(***************************************************************************)
\* the value the tokenizer gives the field that starts on line h
FieldValue(ls, h) ==
    LET val == lstrip(split1(ls[h], ":")[2])
    IN IF opens_multiline(val)
       THEN multiline_value(accumulate(ls, h, Len(ls), Tail(val))[2])
       ELSE single_line_value(val)

\* the last line a field that starts on line h takes up
FieldEnd(ls, h) ==
    IF OpensQuote(ls[h])
    THEN IF Closers(ls, h) = {} THEN Len(ls) ELSE Min(Closers(ls, h))
    ELSE h

\* The lines the tokenizer reads as field lines, from line h on: lines with a
\* ":" that are not continuation lines of a value opened before them.
RECURSIVE FieldStartsFrom(_, _)
FieldStartsFrom(ls, h) ==
    IF h > Len(ls) THEN {}
    ELSE IF ~IsFieldLine(ls[h]) THEN FieldStartsFrom(ls, h + 1)
    ELSE {h} \cup FieldStartsFrom(ls, FieldEnd(ls, h) + 1)

FieldStarts(ls) == FieldStartsFrom(ls, 1)

\* every line with a ":" whose text before the first ":" trims to key
DefinitionLines(ls, key) == {h \in 1..Len(ls) : IsFieldLine(ls[h]) /\ KeyOf(ls[h]) = key}

DefinedKeys(ls) == {KeyOf(ls[h]) : h \in {g \in 1..Len(ls) : IsFieldLine(ls[g])}}

\* the block of lines has been tokenized into data
Tokenized == pc = "while" /\ idx = total

\* C10, with every line that has the key before its first ":" counted as a
\* definition of the key: the last of them gives the key's value.
C10_LastDefinitionLineWins ==
    Tokenized =>
        \A key \in DefinedKeys(lines) :
            Cardinality(DefinitionLines(lines, key)) > 1 =>
                get(data, key) = FieldValue(lines, Max(DefinitionLines(lines, key)))

\* C10, with the lines that the tokenizer reads as field lines counted as
\* definitions of the key (a line inside a multiline value opened before it
\* is text of that value): the last of them gives the key's value.
C10_LastFieldLineWins ==
    Tokenized =>
        \A key \in DefinedKeys(lines) :
            LET starts == DefinitionLines(lines, key) \cap FieldStarts(lines)
            IN Cardinality(starts) > 1 =>
                  /\ key \in DOMAIN data
                  /\ data[key] = FieldValue(lines, Max(starts))

\* a tokenized block in which a key has a multiline value first and another
\* value on a later field line, and holds the later one
C10_Witness ==
    /\ Tokenized
    /\ \E h1, h2 \in FieldStarts(lines) :
          /\ h1 < h2
          /\ KeyOf(lines[h1]) = KeyOf(lines[h2])
          /\ OpensQuote(lines[h1])
          /\ FieldValue(lines, h1) # FieldValue(lines, h2)
          /\ get(data, KeyOf(lines[h2])) = FieldValue(lines, h2)


(***************************************************************************)
(* Vocabulary of the Description Decomposer's properties                   *)
(***************************************************************************)
\* the block's record has been assembled from data and stands last in rows
Assembled == pc = "for" /\ block_no >= 1 /\ Len(rows) = block_no

\* the length of the longest prefix of s made of the given characters
LongestPrefix(s, chars) ==
    Max({n \in 0..Len(s) : \A i \in 1..n : s[i] \in chars})

\* s without its leading and trailing double quotes
Unquoted(s) ==
    LET solid == {i \in 1..Len(s) : s[i] # Quote}
    IN IF solid = {} THEN <<>> ELSE SubSeq(s, Min(solid), Max(solid))

\* one or more groups of digits separated by single dots
IsDottedPath(path) ==
    /\ path # <<>>
    /\ \A i \in 1..Len(path) : path[i] \in Digits \cup {"."}
    /\ path[1] # "."
    /\ path[Len(path)] # "."
    /\ \A i \in 1..(Len(path) - 1) : ~(path[i] = "." /\ path[i + 1] = ".")

\* The description read as: path, whitespace, "(L", digits, ")", whitespace,
\* name, each part taken as long as it goes.
Shape(d) ==
    LET t == Trim(d)
        a == LongestPrefix(t, Digits \cup {"."})
        r1 == TrimLeft(SubSeq(t, a + 1, Len(t)))
        b == LongestPrefix(SubSeq(r1, 3, Len(r1)), Digits)
    IN [ path   |-> SubSeq(t, 1, a),
         marked |-> Len(r1) >= 2 /\ r1[1] = "(" /\ r1[2] = "L",
         level  |-> SubSeq(r1, 3, b + 2),
         closed |-> Len(r1) >= b + 3 /\ r1[b + 3] = ")",
         name   |-> TrimLeft(SubSeq(r1, b + 4, Len(r1))) ]

\* the description is a dotted numeric path, "(L" digits ")" and a name on
\* the same line
MatchesPattern(d) ==
    LET sh == Shape(d) IN
    /\ IsDottedPath(sh.path)
    /\ sh.marked
    /\ sh.level # <<>>
    /\ sh.closed
    /\ sh.name # <<>>
    /\ \A i \in 1..Len(sh.name) : sh.name[i] # "\n"

\* the path up to its first dot, and from its first dot on
FirstSegment(path) ==
    LET dots == {i \in 1..Len(path) : path[i] = "."}
    IN IF dots = {} THEN path ELSE SubSeq(path, 1, Min(dots) - 1)

LaterSegments(path) == SubSeq(path, Len(FirstSegment(path)) + 1, Len(path))

\* the number a group of digits writes is less than 10: only its last digit
\* may differ from 0
BelowTen(seg) == \A i \in 1..(Len(seg) - 1) : seg[i] = "0"

PaddedToTwoDigits(seg) == IF Len(seg) < 2 THEN <<"0">> \o seg ELSE seg

PaddedSection(path) ==
    (IF BelowTen(FirstSegment(path))
     THEN PaddedToTwoDigits(FirstSegment(path))
     ELSE FirstSegment(path)) \o LaterSegments(path)

C7_FallbackWhenNoMatch ==
    Assembled =>
        LET d == get(data, KeyDescription) IN
        ~MatchesPattern(d) =>
            /\ rows[block_no].Section = <<>>
            /\ rows[block_no].Level = <<>>
            /\ rows[block_no].Name = Unquoted(Trim(d))

(***************************************************************************)
(* Vocabulary of the Reference Filter's properties                         *)
(***************************************************************************)
ControlFamily == <<"8", "0", "0", "-", "5", "3">>

BeginsWithFamily(token) ==
    /\ Len(token) >= Len(ControlFamily)
    /\ \A k \in 1..Len(ControlFamily) : token[k] = ControlFamily[k]

\* the comma-separated tokens, trimmed
TrimmedTokens(ref) ==
    LET raw == Pieces(ref, ",") IN [k \in 1..Len(raw) |-> Trim(raw[k])]

\* the trimmed tokens that are non-empty and begin with the prefix, in their
\* order, duplicates and all
KeptTokens(ref) ==
    SelectSeq(TrimmedTokens(ref), LAMBDA tok : tok # <<>> /\ BeginsWithFamily(tok))

(***************************************************************************)
(* C8: in the joined layout the NIST column is the kept tokens, in order   *)
(* and with duplicates, joined with ", "; it is empty when no token has    *)
(* the prefix.                                                             *)
(***************************************************************************)
C8_JoinedLayout ==
    (Assembled /\ layout = "joined") =>
        LET kept == KeptTokens(get(data, KeyReference)) IN
        /\ rows[block_no].NIST = Glue(kept, <<",", " ">>)
        /\ kept = <<>> => rows[block_no].NIST = <<>>

\* a joined record that kept the same token twice and dropped another token
C8_Witness ==
    /\ Assembled
    /\ layout = "joined"
    /\ LET ref == get(data, KeyReference) IN
          /\ Len(KeptTokens(ref)) = 2
          /\ KeptTokens(ref)[1] = KeptTokens(ref)[2]
          /\ \E k \in 1..Len(TrimmedTokens(ref)) :
                TrimmedTokens(ref)[k] # <<>> /\ ~BeginsWithFamily(TrimmedTokens(ref)[k])
          /\ rows[block_no].NIST = KeptTokens(ref)[1] \o <<",", " ">> \o KeptTokens(ref)[2]

=============================================================================
